---- MODULE Spec2Model ----
(***************************************************************************)
(* Model of the release-promotion logic of keybase/release                 *)
(* (src/update/s3.go, src/version/version.go, src/update/update.go).        *)
(*                                                                         *)
(* Encoding of Go values                                                   *)
(*   - a time.Time is a record [instant, offset]: instant in hours since   *)
(*     2023-01-01 00:00:00 UTC, offset the zone's offset from UTC in hours *)
(*   - a version string is a tuple: <<major, minor, patch>>,               *)
(*     <<major, minor, patch, pre>> (one numeric pre-release component),   *)
(*     or <<>> for a string that is no semantic version (such as "")       *)
(*   - a file name is a record (see GenericName, PlainName, IndexName)     *)
(*   - a storage key is a record [prefix, name]                            *)
(*   - a formatted name is a record of its format and its %s arguments     *)
(***************************************************************************)
EXTENDS Integers, Sequences, FiniteSets, TLC

\* ------------------------------------------------------------------ bounds
\* Largest number of objects a listing of the platform prefix returns.
MaxReleases == 2
\* Largest number of objects handed to loadReleases when called on its own.
MaxObjects == 3
\* Largest number of pre-release components in a name handed to Parse.
MaxPre == 2

\* ------------------------------------------------------- program constants
\* America/New_York in January (and on 1970-01-01): UTC-5.
EasternUTCOffset == -5
\* time.Unix(0, 0) in hours relative to 2023-01-01 00:00:00 UTC.
EpochInstant == -464592
HoursPerDay == 24

\* A Go pointer is a sequence: <<>> is nil, <<x>> points to x.
Nil == <<>>
Ptr(x) == <<x>>
Deref(p) == p[1]

\* A stored object: no object, bytes that are no JSON document, or the JSON
\* of an Update with the given version string.
Absent == [kind |-> "absent", version |-> <<>>]
Malformed == [kind |-> "malformed", version |-> <<>>]
UpdateBlob(v) == [kind |-> "update", version |-> v]
\* Documents that are not a manifest as it is written: one with a field the
\* Update structure does not have, one without a version field, and one
\* followed by bytes that are no JSON.
UnknownFieldBlob(v) == [kind |-> "unknownField", version |-> v]
NoVersionBlob == [kind |-> "noVersion", version |-> <<>>]
TrailingBlob(v) == [kind |-> "trailing", version |-> v]

platformDarwin ==
  [Name |-> "darwin", Prefix |-> "darwin/", PrefixSupport |-> "darwin-support/",
   Suffix |-> <<>>, LatestName |-> "Keybase.dmg"]

\* ------------------------------------------------------------ input sets
Versions == {<<1, 2, 0>>, <<1, 3, 0>>}
Nows == {39, 43}
Delays == {0, 27}
Cutoffs == {0, 10, 11, 12}
Channels == {"", "test"}
Envs == {"prod"}

\* A file name is a record of the parts it is written from (see NameText);
\* ts is the build time in hours since 2023-01-01 00:00:00 UTC.
dmg == <<".", "d", "m", "g">>
abc1234 == <<"a", "b", "c", "1", "2", "3", "4">>
\* Keybase-<major>.<minor>.<patch>-<timestamp>+<commit>.dmg
GenericName(v, ts) ==
  [kind |-> "generic", ver |-> v, ts |-> ts, commit |-> abc1234, ext |-> dmg]
\* Keybase.dmg
PlainName == [kind |-> "plain", ver |-> <<>>, ts |-> 0, commit |-> <<>>, ext |-> dmg]
\* index.html
IndexName ==
  [kind |-> "index", ver |-> <<>>, ts |-> 0, commit |-> <<>>,
   ext |-> <<".", "h", "t", "m", "l">>]

\* The names that may be stored under the platform prefix, in the key order
\* in which a listing returns them.
NamePool ==
  << GenericName(<<1, 2, 0>>, 12), GenericName(<<1, 2, 0>>, 37),
     GenericName(<<1, 3, 0>>, 16), GenericName(<<1, 3, 0>>, 37),
     PlainName, IndexName >>

RECURSIVE Pick(_, _)
Pick(idx, i) ==
  IF i > Len(NamePool) THEN <<>>
  ELSE IF i \in idx THEN <<NamePool[i]>> \o Pick(idx, i + 1)
       ELSE Pick(idx, i + 1)

Listings ==
  {Pick(idx, 1) : idx \in {s \in SUBSET (1 .. Len(NamePool)) : Cardinality(s) <= MaxReleases}}

\* The objects handed to loadReleases when it is called on its own: names
\* of the generic convention as disk images and as archives, one with a
\* timestamp that is no date (January 32nd), one without timestamp and
\* commit (Keybase-1.2.0.dmg), Keybase.dmg and index.html.
zip == <<".", "z", "i", "p">>
ZipName(v, ts) == [GenericName(v, ts) EXCEPT !.ext = zip]
BareName(v) == [kind |-> "bare", ver |-> v, ts |-> 0, commit |-> <<>>, ext |-> dmg]
LoadPool ==
  << GenericName(<<1, 2, 0>>, 12), BareName(<<1, 2, 0>>), GenericName(<<1, 3, 0>>, 16),
     ZipName(<<1, 3, 0>>, 16), GenericName(<<1, 3, 0>>, 37), GenericName(<<1, 3, 0>>, 744),
     PlainName, IndexName >>

\* The names of a bucket of fourteen disk images, in key order; two of them
\* were built in the same hour.
LongPool ==
  [i \in 1 .. 14 |-> IF i <= 7 THEN GenericName(<<1, 2, 0>>, 9 + i)
                     ELSE GenericName(<<1, 3, 0>>, 8 + i)]

RECURSIVE PickFrom(_, _, _)
PickFrom(pool, idx, i) ==
  IF i > Len(pool) THEN <<>>
  ELSE IF i \in idx THEN <<pool[i]>> \o PickFrom(pool, idx, i + 1)
       ELSE PickFrom(pool, idx, i + 1)

LoadListings ==
  {PickFrom(LoadPool, idx, 1) :
     idx \in {s \in SUBSET (1 .. Len(LoadPool)) : Cardinality(s) <= MaxObjects}}
\* The listings of all but one of the fourteen.
LongListings ==
  {PickFrom(LongPool, (1 .. Len(LongPool)) \ {i}, 1) : i \in 1 .. Len(LongPool)}
Suffixes == {<<>>, dmg, zip}
Truncates == {-1, 0, 1, 2, 3}

\* ------------------------------------------------------------------ text
\* A Go string the code looks into is a sequence of one-character strings.
Numbers == {"0", "1", "2", "3", "4", "5", "6", "7", "8", "9"}
Alphas ==
  {"a", "b", "c", "d", "e", "f", "g", "h", "i", "j", "k", "l", "m", "n", "o", "p", "q",
   "r", "s", "t", "u", "v", "w", "x", "y", "z", "A", "B", "C", "D", "E", "F", "G", "H",
   "I", "J", "K", "L", "M", "N", "O", "P", "Q", "R", "S", "T", "U", "V", "W", "X", "Y",
   "Z", "-"}
Alphanum == Alphas \cup Numbers

DigitChar(d) == <<"0", "1", "2", "3", "4", "5", "6", "7", "8", "9">>[d + 1]
DigitValue(c) == CHOOSE d \in 0 .. 9 : DigitChar(d) = c

\* fmt.Sprintf("%d", n) for n >= 0
RECURSIVE DecimalText(_)
DecimalText(n) ==
  IF n < 10 THEN <<DigitChar(n)>> ELSE Append(DecimalText(n \div 10), DigitChar(n % 10))

\* strconv.ParseUint(s, 10, 64) of a non-empty run of digits
RECURSIVE ParseUint(_)
ParseUint(s) ==
  IF Len(s) = 1 THEN DigitValue(s[1])
  ELSE 10 * ParseUint(SubSeq(s, 1, Len(s) - 1)) + DigitValue(s[Len(s)])

containsOnly(s, chars) == \A i \in 1 .. Len(s) : s[i] \in chars
hasLeadingZeroes(s) == Len(s) > 1 /\ s[1] = "0"

\* strings.IndexAny / strings.IndexRune as a position from 1; 0 is Go's -1.
IndexAny(s, chars) ==
  LET hits == {i \in 1 .. Len(s) : s[i] \in chars}
  IN IF hits = {} THEN 0 ELSE CHOOSE i \in hits : \A j \in hits : i <= j

\* strings.HasSuffix
HasSuffix(s, suffix) ==
  \/ suffix = <<>>
  \/ /\ Len(suffix) <= Len(s)
     /\ SubSeq(s, Len(s) - Len(suffix) + 1, Len(s)) = suffix

\* strings.Split(s, sep) for a one-character separator
RECURSIVE Split(_, _)
Split(s, sep) ==
  LET i == IndexAny(s, {sep})
  IN IF i = 0 THEN <<s>>
     ELSE <<SubSeq(s, 1, i - 1)>> \o Split(SubSeq(s, i + 1, Len(s)), sep)

\* strings.Join(parts, sep)
RECURSIVE Join(_, _)
Join(parts, sep) ==
  IF parts = <<>> THEN <<>>
  ELSE IF Len(parts) = 1 THEN parts[1]
  ELSE parts[1] \o <<sep>> \o Join(Tail(parts), sep)

\* filepath.Ext: the suffix from the last dot of the last path element.
filepathExt(path) ==
  LET dots == {i \in 1 .. Len(path) :
                 path[i] = "." /\ \A j \in i .. Len(path) : path[j] # "/"}
  IN IF dots = {} THEN <<>>
     ELSE SubSeq(path, CHOOSE i \in dots : \A j \in dots : j <= i, Len(path))

removeExt(name) ==
  LET suffix == filepathExt(name)
  IN IF Len(suffix) > 0 THEN SubSeq(name, 1, Len(name) - Len(suffix)) ELSE name

\* ------------------------------------------------------------------ time
UTC(i) == [instant |-> i, offset |-> 0]
Before(t, u) == t.instant < u.instant
ClockHour(t) == (t.instant + t.offset) % HoursPerDay
Since(now, t) == now - t.instant

convertEastern(t) == [instant |-> t.instant, offset |-> EasternUTCOffset]

\* --------------------------------------------------------------- time.Parse
\* Days from 1970-01-01 to the civil date y-m-d (proleptic Gregorian).
DaysFromCivil(y, m, d) ==
  LET yy == IF m <= 2 THEN y - 1 ELSE y
      era == yy \div 400
      yoe == yy - era * 400
      doy == (153 * (IF m > 2 THEN m - 3 ELSE m + 9) + 2) \div 5 + d - 1
      doe == yoe * 365 + yoe \div 4 - yoe \div 100 + doy
  IN era * 146097 + doe - 719468

isLeap(y) == y % 4 = 0 /\ (y % 100 # 0 \/ y % 400 = 0)
daysIn(m, y) ==
  IF m = 2 THEN (IF isLeap(y) THEN 29 ELSE 28)
  ELSE IF m \in {4, 6, 9, 11} THEN 30 ELSE 31

\* The zero time.Time (0001-01-01 00:00:00 UTC), which time.Parse returns
\* with an error.
zeroTime == UTC((DaysFromCivil(1, 1, 1) - DaysFromCivil(2023, 1, 1)) * HoursPerDay)

\* time.Parse("20060102150405", d): fourteen digits, each field in range.
\* The minutes and seconds are checked and then fall below the hour, the
\* unit of an instant.
timeParse(d) ==
  IF Len(d) # 14 \/ ~containsOnly(d, Numbers) THEN [t |-> zeroTime, err |-> "time.Parse"]
  ELSE LET year == ParseUint(SubSeq(d, 1, 4))
           month == ParseUint(SubSeq(d, 5, 6))
           day == ParseUint(SubSeq(d, 7, 8))
           hour == ParseUint(SubSeq(d, 9, 10))
           min == ParseUint(SubSeq(d, 11, 12))
           sec == ParseUint(SubSeq(d, 13, 14))
       IN IF \/ month < 1 \/ month > 12
             \/ hour > 23 \/ min > 59 \/ sec > 59
             \/ day < 1 \/ day > daysIn(month, year)
          THEN [t |-> zeroTime, err |-> "time.Parse"]
          ELSE [t |-> UTC((DaysFromCivil(year, month, day) - DaysFromCivil(2023, 1, 1))
                            * HoursPerDay + hour),
                err |-> "nil"]

\* -------------------------------------------------- semver.Make on a string
\* semver.NewPRVersion. VersionNum is a uint64 and a timestamp does not fit
\* a 32-bit integer: it is held as its decimal digits, which are what
\* Sprintf("%d") prints, the digits read having no leading zero. More than
\* twenty digits overflow the uint64.
NewPRVersion(s) ==
  IF s = <<>> THEN [ok |-> FALSE, IsNum |-> FALSE, VersionNum |-> <<"0">>, VersionStr |-> <<>>]
  ELSE IF containsOnly(s, Numbers)
  THEN IF hasLeadingZeroes(s) \/ Len(s) > 20
       THEN [ok |-> FALSE, IsNum |-> FALSE, VersionNum |-> <<"0">>, VersionStr |-> <<>>]
       ELSE [ok |-> TRUE, IsNum |-> TRUE, VersionNum |-> s, VersionStr |-> <<>>]
  ELSE IF containsOnly(s, Alphanum)
  THEN [ok |-> TRUE, IsNum |-> FALSE, VersionNum |-> <<"0">>, VersionStr |-> s]
  ELSE [ok |-> FALSE, IsNum |-> FALSE, VersionNum |-> <<"0">>, VersionStr |-> <<>>]

\* A numeric element of major.minor.patch
numericOK(s) == s # <<>> /\ containsOnly(s, Numbers) /\ ~hasLeadingZeroes(s)

semverFail == [ok |-> FALSE, Major |-> 0, Minor |-> 0, Patch |-> 0, Pre |-> <<>>, Build |-> <<>>]

\* The text before and after the first c of s.
Has(s, c) == IndexAny(s, {c}) # 0
BeforeFirst(s, c) == SubSeq(s, 1, IndexAny(s, {c}) - 1)
AfterFirst(s, c) == SubSeq(s, IndexAny(s, {c}) + 1, Len(s))

\* semver.Parse, last part: the elements are checked and converted.
semverElements(major, minor, patch, prerelease, build) ==
  LET pre == [i \in 1 .. Len(prerelease) |-> NewPRVersion(prerelease[i])]
  IN IF ~numericOK(major) \/ ~numericOK(minor) \/ ~numericOK(patch) THEN semverFail
     ELSE IF \E i \in 1 .. Len(pre) : ~pre[i].ok THEN semverFail
     ELSE IF \E i \in 1 .. Len(build) : build[i] = <<>> \/ ~containsOnly(build[i], Alphanum)
     THEN semverFail
     ELSE [ok |-> TRUE, Major |-> ParseUint(major), Minor |-> ParseUint(minor),
           Patch |-> ParseUint(patch), Pre |-> pre, Build |-> build]

\* semver.Parse, middle part: patchStr without the build metadata is cut at
\* its first "-" into the patch and the pre-release elements.
semverPatch(major, minor, patchStr, build) ==
  IF Has(patchStr, "-")
  THEN semverElements(major, minor, BeforeFirst(patchStr, "-"),
                      Split(AfterFirst(patchStr, "-"), "."), build)
  ELSE semverElements(major, minor, patchStr, <<>>, build)

\* semver.Parse, first part: parts[2] of SplitN(s, ".", 3) is cut at its
\* first "+" into patchStr and the build elements.
semverParts(major, minor, rest) ==
  IF Has(rest, "+")
  THEN semverPatch(major, minor, BeforeFirst(rest, "+"), Split(AfterFirst(rest, "+"), "."))
  ELSE semverPatch(major, minor, rest, <<>>)

\* semver.Parse (Make): major.minor.patch[-pre.pre...][+build.build...]
semverMakeText(s) ==
  IF s = <<>> \/ ~Has(s, ".") \/ ~Has(AfterFirst(s, "."), ".") THEN semverFail
  ELSE semverParts(BeforeFirst(s, "."), BeforeFirst(AfterFirst(s, "."), "."),
                   AfterFirst(AfterFirst(s, "."), "."))

\* ------------------------------------------------------------ version.Parse
\* The results of Parse: version is <<major, minor, patch>> for the string
\* "major.minor.patch" and <<>> for ""; panic tells a run-time panic.
ParseResult(version, t, commit, err) ==
  [version |-> version, t |-> t, commit |-> commit, err |-> err, panic |-> FALSE]
ParsePanic == [version |-> <<>>, t |-> zeroTime, commit |-> <<>>, err |-> "nil", panic |-> TRUE]

\* Last position of the run of characters of chars that starts at i (i - 1
\* when there is none).
RunEnd(s, i, chars) ==
  LET stops == {j \in i .. Len(s) : s[j] \notin chars}
  IN IF stops = {} THEN Len(s) ELSE (CHOOSE j \in stops : \A k \in stops : j <= k) - 1

\* The ends of consecutive runs, each of one class of characters and each
\* followed by one separator.
RECURSIVE runEnds(_, _, _)
runEnds(s, i, classes) ==
  IF classes = <<>> THEN <<>>
  ELSE <<RunEnd(s, i, classes[1])>>
         \o runEnds(s, RunEnd(s, i, classes[1]) + 2, Tail(classes))

At(s, i) == IF i \in 1 .. Len(s) THEN s[i] ELSE ""

\* A match of (\d+\.\d+\.\d+)[-.](\d+)[+.]([[:alnum:]]+) that starts at i,
\* e the ends of its five runs.
linuxMatch(s, i, e) ==
  IF /\ e[1] >= i /\ At(s, e[1] + 1) = "."
     /\ e[2] >= e[1] + 2 /\ At(s, e[2] + 1) = "."
     /\ e[3] >= e[2] + 2 /\ At(s, e[3] + 1) \in {"-", "."}
     /\ e[4] >= e[3] + 2 /\ At(s, e[4] + 1) \in {"+", "."}
     /\ e[5] >= e[4] + 2
  THEN [ok |-> TRUE,
        version |-> <<ParseUint(SubSeq(s, i, e[1])), ParseUint(SubSeq(s, e[1] + 2, e[2])),
                      ParseUint(SubSeq(s, e[2] + 2, e[3]))>>,
        date |-> SubSeq(s, e[3] + 2, e[4]), commit |-> SubSeq(s, e[4] + 2, e[5])]
  ELSE [ok |-> FALSE, version |-> <<>>, date |-> <<>>, commit |-> <<>>]

linuxMatchAt(s, i) ==
  linuxMatch(s, i, runEnds(s, i, <<Numbers, Numbers, Numbers, Numbers, Alphanum \ {"-"}>>))

\* parts[0] of FindAllStringSubmatch is the leftmost match; without a match
\* parts is empty and parts[0] panics. The error of time.Parse is dropped.
linuxResult(m) == ParseResult(m.version, timeParse(m.date).t, m.commit, "nil")
ParseLinux(name) ==
  LET starts == {i \in 1 .. Len(name) : linuxMatchAt(name, i).ok}
  IN IF starts = {} THEN ParsePanic
     ELSE linuxResult(linuxMatchAt(name, CHOOSE i \in starts : \A j \in starts : i <= j))

\* Parse from the pre-release check on: version is assigned, then commit,
\* then the time.
parseVersion(sversion) ==
  IF ~sversion.ok THEN ParseResult(<<>>, UTC(EpochInstant), <<>>, "semver")
  ELSE IF Len(sversion.Pre) # 1
  THEN ParseResult(<<sversion.Major, sversion.Minor, sversion.Patch>>, UTC(EpochInstant),
                   <<>>, "Invalid prerelease")
  ELSE ParseResult(<<sversion.Major, sversion.Minor, sversion.Patch>>,
                   timeParse(sversion.Pre[1].VersionNum).t,
                   IF Len(Join(sversion.Build, " ")) # 7 THEN <<>>
                   ELSE Join(sversion.Build, " "),
                   timeParse(sversion.Pre[1].VersionNum).err)

\* Parse from the numeric start on.
parseFrom(name, start) ==
  IF start = 0 THEN ParseResult(<<>>, UTC(EpochInstant), <<>>, "nil")
  ELSE parseVersion(semverMakeText(removeExt(SubSeq(name, start, Len(name)))))

Parse(name) ==
  IF HasSuffix(name, <<".", "d", "e", "b">>) \/ HasSuffix(name, <<".", "r", "p", "m">>)
  THEN ParseLinux(name)
  ELSE parseFrom(name, IndexAny(name, Numbers \ {"0"}))

\* ------------------------------------------------------------------ semver
semverMake(v) ==
  IF Len(v) \in {3, 4} THEN [ok |-> TRUE, v |-> v] ELSE [ok |-> FALSE, v |-> <<>>]

\* -1, 0, 1 as blang/semver Compare: numeric triple first, then a version
\* with a pre-release is lower than the same version without one.
semverCompare(a, b) ==
  IF a[1] # b[1] THEN (IF a[1] < b[1] THEN -1 ELSE 1)
  ELSE IF a[2] # b[2] THEN (IF a[2] < b[2] THEN -1 ELSE 1)
  ELSE IF a[3] # b[3] THEN (IF a[3] < b[3] THEN -1 ELSE 1)
  ELSE IF Len(a) = 3 /\ Len(b) = 3 THEN 0
  ELSE IF Len(a) = 3 THEN 1
  ELSE IF Len(b) = 3 THEN -1
  ELSE IF a[4] = b[4] THEN 0
  ELSE IF a[4] < b[4] THEN -1 ELSE 1

semverEquals(a, b) == semverCompare(a, b) = 0
semverLT(a, b) == semverCompare(a, b) = -1

\* ------------------------------------------------------------- key naming
\* A %s argument that is a channel name or a version string; the empty
\* channel and the empty version are the same (empty) string.
StrPart(c) == [str |-> c, ver |-> <<>>]
VerPart(v) == [str |-> "", ver |-> v]

updateJSONName(channel, platformName, env) ==
  IF channel = ""
  THEN [fmt |-> "update-%s-%s.json", platform |-> platformName, env |-> env,
        last |-> StrPart("")]
  ELSE [fmt |-> "update-%s-%s-%s.json", platform |-> platformName, env |-> env,
        last |-> StrPart(channel)]

supportJSONName(platformName, env, version) ==
  [fmt |-> "update-%s-%s-%s.json", platform |-> platformName, env |-> env,
   last |-> VerPart(version)]

urlString(prefix, name) == [prefix |-> prefix, name |-> name]

ManifestKeys ==
  {urlString("", updateJSONName(c, platformDarwin.Name, e)) : c \in Channels, e \in Envs}
SupportVersions == Versions \cup {<<>>}
SupportKeys ==
  {urlString(platformDarwin.PrefixSupport, supportJSONName(platformDarwin.Name, e, v)) :
     e \in Envs, v \in SupportVersions}
Keys == ManifestKeys \cup SupportKeys

\* ------------------------------------------------------ release catalog
Release(name, key, version, date, commit) ==
  [Name |-> name, Key |-> key, URL |-> "", Version |-> version, Date |-> date,
   Commit |-> commit]

\* The text of a file name and of the key it is stored under.
Pad2(n) == <<DigitChar(n \div 10), DigitChar(n % 10)>>
timestampText(ts) ==
  <<"2", "0", "2", "3", "0", "1">> \o Pad2(ts \div HoursPerDay + 1)
     \o Pad2(ts % HoursPerDay) \o <<"0", "0", "0", "0">>
versionText(v) ==
  DecimalText(v[1]) \o <<".">> \o DecimalText(v[2]) \o <<".">> \o DecimalText(v[3])
Keybase == <<"K", "e", "y", "b", "a", "s", "e">>

NameText(name) ==
  IF name.kind = "index" THEN <<"i", "n", "d", "e", "x">> \o name.ext
  ELSE IF name.kind = "plain" THEN Keybase \o name.ext
  ELSE IF name.kind = "generic"
  THEN Keybase \o <<"-">> \o versionText(name.ver) \o <<"-">> \o timestampText(name.ts)
         \o <<"+">> \o name.commit \o name.ext
  ELSE Keybase \o <<"-">> \o versionText(name.ver) \o name.ext

\* The characters of the string constants of the code.
StringText(str) ==
  CASE str = "" -> <<>>
    [] str = "darwin" -> <<"d", "a", "r", "w", "i", "n">>
    [] str = "prod" -> <<"p", "r", "o", "d">>
    [] str = "test" -> <<"t", "e", "s", "t">>
    [] str = "darwin/" -> <<"d", "a", "r", "w", "i", "n", "/">>
    [] str = "darwin-support/" ->
         <<"d", "a", "r", "w", "i", "n", "-", "s", "u", "p", "p", "o", "r", "t", "/">>
PrefixText(prefix) == StringText(prefix)
KeyText(key) == PrefixText(key.prefix) \o NameText(key.name)

\* What fmt.Sprintf prints for a formatted manifest name.
jsonNameText(name) ==
  <<"u", "p", "d", "a", "t", "e", "-">> \o StringText(name.platform) \o <<"-">>
    \o StringText(name.env)
    \o (IF name.fmt = "update-%s-%s.json" THEN <<>>
        ELSE <<"-">> \o (IF name.last.ver # <<>> THEN versionText(name.last.ver)
                         ELSE StringText(name.last.str)))
    \o <<".", "j", "s", "o", "n">>

\* version.Parse of the names in play, computed once.
Names ==
  {NamePool[i] : i \in 1 .. Len(NamePool)} \cup {LoadPool[i] : i \in 1 .. Len(LoadPool)}
    \cup {LongPool[i] : i \in 1 .. Len(LongPool)}
parsedNames == [n \in Names |-> Parse(NameText(n))]

\* Variant of ByRelease.Less that orders the oldest first.
ByReleaseLessOldestFirst(a, b) == Before(a.Date, b.Date)

ByReleaseLess(a, b) == Before(b.Date, a.Date)

\* The insertion sort of package sort: each element moves left while
\* Less(element, left neighbour).
RECURSIVE insertSorted(_, _)
insertSorted(s, x) ==
  IF s = <<>> THEN <<x>>
  ELSE IF ByReleaseLess(x, s[Len(s)])
       THEN Append(insertSorted(SubSeq(s, 1, Len(s) - 1), x), s[Len(s)])
       ELSE Append(s, x)

RECURSIVE insertionSort(_)
insertionSort(s) ==
  IF s = <<>> THEN <<>>
  ELSE insertSorted(insertionSort(SubSeq(s, 1, Len(s) - 1)), s[Len(s)])

\* Up to maxInsertion elements sort.Sort is the insertion sort.
maxInsertion == 12

Swap(s, i, j) == [s EXCEPT ![i] = s[j], ![j] = s[i]]

\* order2: the two positions with the lesser element first, and whether
\* they were exchanged.
order2(s, a, b) == IF ByReleaseLess(s[b], s[a]) THEN <<b, a, 1>> ELSE <<a, b, 0>>

\* choosePivot for 8 to 49 elements: the median of the elements at a
\* quarter, a half and three quarters, and the number of exchanges made to
\* find it.
median(s, o1, c) ==
  LET o2 == order2(s, o1[2], c)
  IN [pivot |-> order2(s, o1[1], o2[1])[2],
      swaps |-> o1[3] + o2[3] + order2(s, o1[1], o2[1])[3]]
choosePivot(s) ==
  median(s, order2(s, Len(s) \div 4 + 1, (Len(s) \div 4) * 2 + 1), (Len(s) \div 4) * 3 + 1)

\* partialInsertionSort on fewer than 50 elements moves nothing: it tells
\* whether the slice is in order.
partialInsertionSort(s) == \A i \in 2 .. Len(s) : ~ByReleaseLess(s[i], s[i - 1])

\* partition: the pivot is at position 1; i moves right over the elements
\* less than the pivot, j moves left over the others, and the two they stop
\* at are exchanged until they cross.
scanUp(s, i, j) ==
  LET stops == {x \in i .. j : ~ByReleaseLess(s[x], s[1])}
  IN IF stops = {} THEN (IF i > j THEN i ELSE j + 1)
     ELSE CHOOSE x \in stops : \A y \in stops : x <= y
scanDown(s, i, j) ==
  LET stops == {x \in i .. j : ByReleaseLess(s[x], s[1])}
  IN IF stops = {} THEN (IF i > j THEN j ELSE i - 1)
     ELSE CHOOSE x \in stops : \A y \in stops : x >= y
RECURSIVE partitionFrom(_, _, _)
partitionFrom(s, i, j) ==
  IF i > j THEN [data |-> Swap(s, j, 1), mid |-> j]
  ELSE partitionFrom(Swap(s, i, j), scanUp(Swap(s, i, j), i + 1, j - 1),
                     scanDown(Swap(s, i, j), scanUp(Swap(s, i, j), i + 1, j - 1), j - 1))
partition(s, pivot) ==
  LET d == Swap(s, 1, pivot)
  IN partitionFrom(d, scanUp(d, 2, Len(d)), scanDown(d, scanUp(d, 2, Len(d)), Len(d)))

\* pdqsort on maxInsertion + 1 elements: an ordered slice is left as it is;
\* otherwise it is partitioned and the two sides, of at most maxInsertion
\* elements, are sorted by insertion.
sortSides(p) ==
  insertionSort(SubSeq(p.data, 1, p.mid - 1)) \o <<p.data[p.mid]>>
    \o insertionSort(SubSeq(p.data, p.mid + 1, Len(p.data)))
pdqsort(s) ==
  IF choosePivot(s).swaps = 0 /\ partialInsertionSort(s) THEN s
  ELSE sortSides(partition(s, choosePivot(s).pivot))

\* sort.Sort(ByRelease(releases)).
sortSort(s) == IF Len(s) <= maxInsertion THEN insertionSort(s) ELSE pdqsort(s)

RECURSIVE collectReleases(_, _, _)
collectReleases(objects, prefix, suffix) ==
  IF objects = <<>> THEN <<>>
  ELSE LET name == objects[1]
           key == urlString(prefix, name)
           rest == collectReleases(Tail(objects), prefix, suffix)
           parsed == parsedNames[name]
       IN IF HasSuffix(KeyText(key), suffix) /\ name # IndexName
          THEN <<Release(name, key, parsed.version, convertEastern(parsed.t),
                         parsed.commit)>> \o rest
          ELSE rest

\* Variant that keeps the tail of the sorted catalog.
loadReleasesKeepTail(objects, prefix, suffix, truncate) ==
  LET releases == sortSort(collectReleases(objects, prefix, suffix))
  IN IF truncate > 0 /\ Len(releases) > truncate
     THEN SubSeq(releases, Len(releases) - truncate + 1, Len(releases))
     ELSE releases

loadReleases(objects, prefix, suffix, truncate) ==
  LET releases == sortSort(collectReleases(objects, prefix, suffix))
  IN IF truncate > 0 /\ Len(releases) > truncate
     THEN SubSeq(releases, 1, truncate)
     ELSE releases

\* ------------------------------------------------------------ predicates
\* Variant that rejects a release exactly delay old.
promotePredicateStrictDelay(r, now, delay, beforeHourEastern) ==
  IF delay # 0 /\ Since(now, r.Date) <= delay THEN FALSE
  ELSE IF beforeHourEastern # 0 /\ ClockHour(r.Date) >= beforeHourEastern THEN FALSE
  ELSE TRUE

\* The closure PromoteRelease hands to FindRelease.
promotePredicate(r, now, delay, beforeHourEastern) ==
  IF delay # 0 /\ Since(now, r.Date) < delay THEN FALSE
  ELSE IF beforeHourEastern # 0 /\ ClockHour(r.Date) >= beforeHourEastern THEN FALSE
  ELSE TRUE

\* The closure promoteDarwinReleaseToProd hands to FindRelease.
namePredicate(r, releaseName) == r.Name = releaseName

\* The closure ReleaseBroken hands to FindRelease.
versionPredicate(r, releaseName) == releaseName = r.Version

\* The predicate of a run, by its operation.
runPredicate(r, rn) ==
  IF rn.op = "auto" THEN promotePredicate(r, rn.now, rn.delay, rn.cutoff)
  ELSE IF rn.op = "manual" THEN namePredicate(r, rn.relName)
  ELSE versionPredicate(r, rn.relVersion)

\* Variant that returns the first release without asking the predicate.
FindReleaseInFirst(releases, suffix, rn) ==
  IF releases = <<>> THEN Nil ELSE Ptr(releases[1])

\* Variant that returns the last release that satisfies the predicate.
FindReleaseInLast(releases, suffix, rn) ==
  LET hits == {i \in 1 .. Len(releases) :
                 HasSuffix(KeyText(releases[i].Key), suffix) /\ runPredicate(releases[i], rn)}
  IN IF hits = {} THEN Nil
     ELSE Ptr(releases[CHOOSE i \in hits : \A j \in hits : i >= j])

\* Platform.FindRelease after a successful listing: the first release of the
\* catalog, in its order, that has the suffix and satisfies the predicate.
FindReleaseIn(releases, suffix, rn) ==
  LET hits == {i \in 1 .. Len(releases) :
                 HasSuffix(KeyText(releases[i].Key), suffix) /\ runPredicate(releases[i], rn)}
  IN IF hits = {} THEN Nil
     ELSE Ptr(releases[CHOOSE i \in hits : \A j \in hits : i <= j])

\* update.DecodeJSON over the bytes of a stored object: Decoder.Decode reads
\* one JSON value, skips the object keys that match no field of Update and
\* leaves the fields without a key at their zero value.
DecodeJSON(blob) ==
  IF blob.kind \in {"update", "unknownField", "trailing"}
  THEN [update |-> Ptr([Version |-> blob.version]), err |-> "nil"]
  ELSE IF blob.kind = "noVersion" THEN [update |-> Ptr([Version |-> <<>>]), err |-> "nil"]
  ELSE [update |-> Nil, err |-> "decode"]

\* ------------------------------------------------------------------ state
VARIABLES
  bucket,    \* the stored manifest and support-file objects, by key
  listing,   \* the names of the objects stored under the platform prefix
  run,       \* per invocation: its position, inputs, locals and results
  input,     \* the arguments of a function called on its own
  output     \* what that call returned

vars == <<bucket, listing, run, input, output>>

Procs == {1, 2}

\* Version strings a stored manifest may carry: the release versions, a
\* version with a pre-release component and a string that is no version.
ManifestVersions == Versions \cup {<<1, 3, 0, 37>>, <<>>}
ManifestBlobs == {Absent, Malformed} \cup {UpdateBlob(v) : v \in ManifestVersions}

\* The support-file manifest of version v carries version v; there is none
\* for the empty version.
SupportBlob(key) ==
  IF key.name.last.ver \in Versions THEN UpdateBlob(key.name.last.ver) ELSE Absent

IdleRun ==
  [pc |-> "idle", op |-> "auto", now |-> 0, delay |-> 0, cutoff |-> 0,
   channel |-> "", env |-> "prod", relName |-> PlainName,
   listed |-> FALSE, catalog |-> <<>>, release |-> Nil,
   getErr |-> "nil", currentUpdate |-> Nil, decision |-> "none",
   calls |-> <<>>, ret |-> Nil, err |-> "nil",
   pre |-> Absent, rerun |-> FALSE, prevWrote |-> FALSE,
   relVersion |-> <<>>, file |-> 1, readKey |-> Nil]

targetKey(rn) == urlString("", updateJSONName(rn.channel, platformDarwin.Name, rn.env))

\* The manifests a channel may start with: any blob for the public channel,
\* none or a decodable one for a named channel.
InitialBlobs(key) ==
  IF key \in SupportKeys THEN {SupportBlob(key)}
  ELSE IF key.name.last.str = "" THEN ManifestBlobs
  ELSE {Absent, UpdateBlob(<<1, 2, 0>>)}

Init ==
  /\ bucket \in {b \in [Keys -> ManifestBlobs] : \A k \in Keys : b[k] \in InitialBlobs(k)}
  /\ listing = <<>>
  /\ run = [p \in Procs |-> IdleRun]
  /\ input = <<>>
  /\ output = Nil

\* Variant that returns no release.
ReturnNoRelease(rn, ret, err) == [rn EXCEPT !.pc = "done", !.ret = Nil, !.err = err]

Return(rn, ret, err) == [rn EXCEPT !.pc = "done", !.ret = ret, !.err = err]

OthersIdle(p) == \A q \in Procs \ {p} : run[q].pc = "idle"

\* ------------------------------------------------------------ invocations
\* The command line starts an automatic promotion (promoteRelease): the
\* catalog, the clock and the parameters are the environment's choice.
StartPromoteRelease(p) ==
  /\ run[p].pc = "idle"
  /\ \E l \in Listings, now \in Nows, delay \in Delays, cutoff \in Cutoffs,
        channel \in Channels, env \in Envs :
       /\ listing' = l
       /\ run' = [run EXCEPT ![p] =
            [IdleRun EXCEPT !.pc = "find", !.op = "auto", !.now = now,
                            !.delay = delay, !.cutoff = cutoff,
                            !.channel = channel, !.env = env,
                            !.pre = bucket[urlString("",
                                      updateJSONName(channel, platformDarwin.Name, env))]]]
  /\ UNCHANGED <<bucket, input, output>>

\* The command line starts a manual promotion of a named release
\* (PromoteARelease): channel "" and environment "prod".
StartPromoteARelease(p) ==
  /\ run[p].pc = "idle"
  /\ \E l \in Listings, i \in 1 .. Len(NamePool) :
       /\ NamePool[i].kind = "generic"
       /\ listing' = l
       /\ run' = [run EXCEPT ![p] =
            [IdleRun EXCEPT !.pc = "find", !.op = "manual",
                            !.relName = NamePool[i],
                            !.pre = bucket[urlString("",
                                      updateJSONName("", platformDarwin.Name, "prod"))]]]
  /\ UNCHANGED <<bucket, input, output>>

\* The same command is run again: same catalog, clock and parameters.
Rerun(p) ==
  /\ run[p].pc = "done"
  /\ run' = [run EXCEPT ![p] =
       [IdleRun EXCEPT !.pc = "find", !.op = run[p].op, !.now = run[p].now,
                       !.delay = run[p].delay, !.cutoff = run[p].cutoff,
                       !.channel = run[p].channel, !.env = run[p].env,
                       !.relName = run[p].relName,
                       !.pre = bucket[targetKey(run[p])],
                       !.rerun = TRUE,
                       !.prevWrote = \E i \in 1 .. Len(run[p].calls) : run[p].calls[i].ok]]
  /\ UNCHANGED <<bucket, listing, input, output>>

\* The process exits.
Exit(p) ==
  /\ run[p].pc = "done"
  /\ run' = [run EXCEPT ![p] = IdleRun]
  /\ UNCHANGED <<bucket, listing, input, output>>

\* --------------------------------------------------------- Platform.FindRelease
\* Variant in which the manual promotion reads and compares the manifest.
afterFindCompareAlways(op) == "current"

\* Where a run goes once its release is found: PromoteRelease reads the
\* current manifest, promoteDarwinReleaseToProd goes straight to the copy.
afterFind(op) ==
  IF op = "auto" THEN "current" ELSE IF op = "manual" THEN "copy" ELSE "brokenCopy"

\* ListObjects fails, or the catalog is loaded and searched. A nil result
\* ends the automatic promotion with (nil, nil), the manual one and
\* ReleaseBroken with an error.
FindRelease(p) ==
  /\ run[p].pc = "find"
  /\ \E listFails \in BOOLEAN :
       LET rn == run[p]
           releases == loadReleases(listing, platformDarwin.Prefix, platformDarwin.Suffix, 0)
           release == FindReleaseIn(releases, platformDarwin.Suffix, rn)
           found == [rn EXCEPT !.listed = TRUE, !.catalog = releases, !.release = release]
       IN run' = [run EXCEPT ![p] =
            IF listFails THEN Return(rn, Nil, "ListObjects")
            ELSE IF release = Nil
                 THEN Return(found, Nil,
                             IF rn.op = "auto" THEN "nil"
                             ELSE IF rn.op = "manual" THEN "NoMatchingRelease"
                             ELSE "NoReleaseFound")
                 ELSE [found EXCEPT !.pc = afterFind(rn.op)]]
  /\ UNCHANGED <<bucket, listing, input, output>>

\* ------------------------------------------------------- Client.CurrentUpdate
\* Variant that reads the manifest of the public channel whatever the
\* channel.
CurrentUpdateNoChannel(channel, platformName, env, getFails) ==
  LET path == urlString("", updateJSONName("", platformName, env))
  IN IF getFails THEN [currentUpdate |-> Nil, path |-> path, err |-> "GetObject"]
     ELSE IF bucket[path].kind = "absent"
          THEN [currentUpdate |-> Nil, path |-> path, err |-> "NoSuchKey"]
          ELSE LET d == DecodeJSON(bucket[path])
               IN [currentUpdate |-> d.update, path |-> path, err |-> d.err]

\* GetObject fails for a reason of its own, or because there is no object;
\* otherwise the body is decoded.
CurrentUpdate(channel, platformName, env, getFails) ==
  LET path == urlString("", updateJSONName(channel, platformName, env))
  IN IF getFails THEN [currentUpdate |-> Nil, path |-> path, err |-> "GetObject"]
     ELSE IF bucket[path].kind = "absent"
          THEN [currentUpdate |-> Nil, path |-> path, err |-> "NoSuchKey"]
          ELSE LET d == DecodeJSON(bucket[path])
               IN [currentUpdate |-> d.update, path |-> path, err |-> d.err]

\* Variants of the comparison with one check missing or misplaced.
promoteDecisionNoOlderCheck(currentUpdate, release) ==
  IF currentUpdate # Nil
  THEN LET currentVer == semverMake(Deref(currentUpdate).Version)
           releaseVer == semverMake(release.Version)
       IN IF ~currentVer.ok THEN "error"
          ELSE IF ~releaseVer.ok THEN "error"
          ELSE IF semverEquals(releaseVer.v, currentVer.v) THEN "unchanged"
          ELSE "copy"
  ELSE "copy"

promoteDecisionNoEqualCheck(currentUpdate, release) ==
  IF currentUpdate # Nil
  THEN LET currentVer == semverMake(Deref(currentUpdate).Version)
           releaseVer == semverMake(release.Version)
       IN IF ~currentVer.ok THEN "error"
          ELSE IF ~releaseVer.ok THEN "error"
          ELSE IF semverLT(releaseVer.v, currentVer.v) THEN "older"
          ELSE "copy"
  ELSE "copy"

promoteDecisionNilStops(currentUpdate, release) ==
  IF currentUpdate # Nil
  THEN LET currentVer == semverMake(Deref(currentUpdate).Version)
           releaseVer == semverMake(release.Version)
       IN IF ~currentVer.ok THEN "error"
          ELSE IF ~releaseVer.ok THEN "error"
          ELSE IF semverEquals(releaseVer.v, currentVer.v) THEN "unchanged"
          ELSE IF semverLT(releaseVer.v, currentVer.v) THEN "older"
          ELSE "copy"
  ELSE "unchanged"

\* The comparison of PromoteRelease: what the run does after CurrentUpdate.
promoteDecision(currentUpdate, release) ==
  IF currentUpdate # Nil
  THEN LET currentVer == semverMake(Deref(currentUpdate).Version)
           releaseVer == semverMake(release.Version)
       IN IF ~currentVer.ok THEN "error"
          ELSE IF ~releaseVer.ok THEN "error"
          ELSE IF semverEquals(releaseVer.v, currentVer.v) THEN "unchanged"
          ELSE IF semverLT(releaseVer.v, currentVer.v) THEN "older"
          ELSE "copy"
  ELSE "copy"

PromoteReleaseCompare(p) ==
  /\ run[p].pc = "current"
  /\ \E getFails \in BOOLEAN :
       LET rn == run[p]
           cu == CurrentUpdate(rn.channel, platformDarwin.Name, rn.env, getFails)
           d == promoteDecision(cu.currentUpdate, Deref(rn.release))
           seen == [rn EXCEPT !.currentUpdate = cu.currentUpdate, !.getErr = cu.err,
                              !.decision = d, !.readKey = Ptr(cu.path)]
       IN run' = [run EXCEPT ![p] =
            IF d = "error" THEN Return(seen, Nil, "semver")
            ELSE IF d \in {"unchanged", "older"} THEN Return(seen, Nil, "nil")
            ELSE [seen EXCEPT !.pc = "copy"]]
  /\ UNCHANGED <<bucket, listing, input, output>>

\* ------------------------------------------------------------- CopyObject
\* The copy source of a promotion: the support-file manifest of the release.
jsonURL(platform, env, release) ==
  urlString(platform.PrefixSupport, supportJSONName(platform.Name, env, release.Version))

\* Variant that drops the channel from the destination.
jsonNameNoChannel(channel, platform, env) ==
  urlString("", updateJSONName("", platform.Name, env))

\* The destination key of a promotion.
jsonName(channel, platform, env) == urlString("", updateJSONName(channel, platform.Name, env))

\* The single CopyObject of PromoteRelease and of promoteDarwinReleaseToProd:
\* it fails for a reason of its own or because the source does not exist.
PromoteCopy(p) ==
  /\ run[p].pc = "copy"
  /\ \E copyFails \in BOOLEAN :
       LET rn == run[p]
           src == jsonURL(platformDarwin, rn.env, Deref(rn.release))
           dst == jsonName(rn.channel, platformDarwin, rn.env)
           ok == ~copyFails /\ bucket[src].kind # "absent"
           called == [rn EXCEPT !.calls =
                        Append(@, [op |-> "copy", src |-> src, dst |-> dst, ok |-> ok])]
       IN /\ bucket' = IF ok THEN [bucket EXCEPT ![dst] = bucket[src]] ELSE bucket
          /\ run' = [run EXCEPT ![p] =
               IF ~ok THEN Return(called, Nil, "CopyObject")
               ELSE Return(called, IF rn.op = "auto" THEN rn.release ELSE Nil, "nil")]
  /\ UNCHANGED <<listing, input, output>>

\* --------------------------------------------------------- specification
\* Invocations run one after the other.
Next ==
  \E p \in Procs :
    \/ OthersIdle(p) /\ StartPromoteRelease(p)
    \/ OthersIdle(p) /\ StartPromoteARelease(p)
    \/ Rerun(p)
    \/ Exit(p)
    \/ FindRelease(p)
    \/ PromoteReleaseCompare(p)
    \/ PromoteCopy(p)

Spec == Init /\ [][Next]_vars

\* ------------------------------------------- two invocations at the same time
\* Two processes run PromoteRelease for the test channel at the same time;
\* the bucket may get another listing between the moments they list it.
raceKey == urlString("", updateJSONName("test", platformDarwin.Name, "prod"))

RaceListings ==
  {l \in Listings : \A i \in 1 .. Len(l) : l[i].kind = "generic"}

InitRace ==
  /\ \E blob \in {Absent} \cup {UpdateBlob(v) : v \in Versions} :
       bucket = [k \in Keys |-> IF k \in SupportKeys THEN SupportBlob(k)
                                ELSE IF k = raceKey THEN blob ELSE Absent]
  /\ listing = <<>>
  /\ run = [p \in Procs |-> IdleRun]
  /\ input = <<>>
  /\ output = Nil

\* promoteRelease is started while another invocation may be running.
StartConcurrent(p) ==
  /\ run[p].pc = "idle"
  /\ \E l \in RaceListings :
       /\ listing' = l
       /\ run' = [run EXCEPT ![p] =
            [IdleRun EXCEPT !.pc = "find", !.op = "auto", !.channel = "test",
                            !.pre = bucket[raceKey]]]
  /\ UNCHANGED <<bucket, input, output>>

NextRace ==
  \E p \in Procs :
    \/ StartConcurrent(p)
    \/ FindRelease(p)
    \/ PromoteReleaseCompare(p)
    \/ PromoteCopy(p)
    \/ Exit(p)

SpecRace == InitRace /\ [][NextRace]_vars

\* ------------------------------------------------------------ ReleaseBroken
\* A stored release file of version v.
Artifact(v) == [kind |-> "artifact", version |-> v]

\* Platform.Files: the disk image, the update archive and the support-file
\* manifest of the release, by its version.
Files(platform, release) ==
  IF platform.Name = "darwin"
  THEN << urlString("darwin/", BareName(release.Version)),
          urlString("darwin-updates/", [BareName(release.Version) EXCEPT !.ext = zip]),
          urlString("darwin-support/", supportJSONName("darwin", "prod", release.Version)) >>
  ELSE <<>>

\* fmt.Sprintf("broken/%s", path)
brokenPath(path) ==
  [path EXCEPT !.prefix =
     IF @ = "darwin/" THEN "broken/darwin/"
     ELSE IF @ = "darwin-updates/" THEN "broken/darwin-updates/"
     ELSE "broken/darwin-support/"]

\* The versions ReleaseBroken is asked for: the released ones and one that
\* was never released.
BrokenVersions == Versions \cup {<<1, 4, 0>>}

FileKeys == {Files(platformDarwin, [Version |-> v])[i] : v \in Versions, i \in 1 .. 3}
FileBlob(key) ==
  IF key.prefix = "darwin-support/" THEN UpdateBlob(key.name.last.ver)
  ELSE Artifact(key.name.ver)

\* The catalogs ReleaseBroken runs against: at most one object listed.
BrokenListings == {l \in Listings : Len(l) <= 1}

\* Any file of release 1.2.0 may be missing; nothing is under broken/ yet.
InitBroken ==
  /\ \E missing \in SUBSET {Files(platformDarwin, [Version |-> <<1, 2, 0>>])[i] :
                                i \in 1 .. 3} :
       bucket = [k \in FileKeys \cup {brokenPath(f) : f \in FileKeys} |->
                   IF k \in FileKeys \ missing THEN FileBlob(k) ELSE Absent]
  /\ listing = <<>>
  /\ run = [p \in Procs |-> IdleRun]
  /\ input = <<>>
  /\ output = Nil

StartReleaseBroken(p) ==
  /\ run[p].pc = "idle"
  /\ \E l \in BrokenListings, v \in BrokenVersions :
       /\ listing' = l
       /\ run' = [run EXCEPT ![p] =
            [IdleRun EXCEPT !.pc = "find", !.op = "broken", !.relVersion = v]]
  /\ UNCHANGED <<bucket, input, output>>

\* After a file is dealt with: the next file, or "return nil".
nextFile(rn) ==
  IF rn.file < Len(Files(platformDarwin, Deref(rn.release)))
  THEN [rn EXCEPT !.pc = "brokenCopy", !.file = @ + 1]
  ELSE Return(rn, Nil, "nil")

\* Variant that deletes the file whether or not it was copied.
afterBrokenCopyDeleteAlways(called, ok) == [called EXCEPT !.pc = "brokenDelete"]

\* After CopyObject: on an error "continue", otherwise the DeleteObject.
afterBrokenCopy(called, ok) ==
  IF ok THEN [called EXCEPT !.pc = "brokenDelete"] ELSE nextFile(called)

\* CopyObject of the current file to broken/<path>; a failure is logged and
\* the loop continues with the next file.
BrokenCopy(p) ==
  /\ run[p].pc = "brokenCopy"
  /\ \E copyFails \in BOOLEAN :
       LET rn == run[p]
           path == Files(platformDarwin, Deref(rn.release))[rn.file]
           ok == ~copyFails /\ bucket[path].kind # "absent"
           called == [rn EXCEPT !.calls =
                        Append(@, [op |-> "copy", src |-> path, dst |-> brokenPath(path),
                                   ok |-> ok])]
       IN /\ bucket' = IF ok THEN [bucket EXCEPT ![brokenPath(path)] = bucket[path]]
                        ELSE bucket
          /\ run' = [run EXCEPT ![p] = afterBrokenCopy(called, ok)]
  /\ UNCHANGED <<listing, input, output>>

\* DeleteObject of the file just copied; a failure is returned at once.
BrokenDelete(p) ==
  /\ run[p].pc = "brokenDelete"
  /\ \E deleteFails \in BOOLEAN :
       LET rn == run[p]
           path == Files(platformDarwin, Deref(rn.release))[rn.file]
           called == [rn EXCEPT !.calls =
                        Append(@, [op |-> "delete", src |-> path, dst |-> path,
                                   ok |-> ~deleteFails])]
       IN /\ bucket' = IF deleteFails THEN bucket ELSE [bucket EXCEPT ![path] = Absent]
          /\ run' = [run EXCEPT ![p] =
               IF deleteFails THEN Return(called, Nil, "DeleteObject") ELSE nextFile(called)]
  /\ UNCHANGED <<listing, input, output>>

NextBroken ==
  \E p \in Procs :
    \/ OthersIdle(p) /\ StartReleaseBroken(p)
    \/ FindRelease(p)
    \/ BrokenCopy(p)
    \/ BrokenDelete(p)
    \/ Exit(p)

SpecBroken == InitBroken /\ [][NextBroken]_vars

\* ------------------------------------------------ loadReleases on its own
\* loadReleases is handed a listing, a suffix and a truncation limit, as
\* WriteHTML and FindRelease hand them.
InitLoad ==
  /\ bucket = [k \in Keys |-> Absent]
  /\ listing = <<>>
  /\ run = [p \in Procs |-> IdleRun]
  /\ input \in [objects : LoadListings \cup LongListings, suffix : Suffixes,
                truncate : Truncates]
  /\ output = Nil

CallLoadReleases ==
  /\ output = Nil
  /\ output' = Ptr(loadReleases(input.objects, platformDarwin.Prefix, input.suffix,
                                input.truncate))
  /\ UNCHANGED <<bucket, listing, run, input>>

NextLoad == CallLoadReleases

SpecLoad == InitLoad /\ [][NextLoad]_vars

\* ------------------------------------------------- version.Parse on its own
\* The names handed to the version-parse command, by their parts:
\* <prefix>[-<n>.<n>...][-<timestamp>[.1...]][+<commit>]<ext>. The prefix
\* may hold a digit, a version element may be 0 or have two digits, the
\* commit may be all digits, and the extension may be the one of a Linux
\* package.
deb == <<".", "d", "e", "b">>

ParseInputs ==
  [prefix : {Keybase, <<"A", "p", "p", "2">>},
   ver : {<<a, b, c>> : a \in {0, 1, 12}, b \in {0, 1, 12}, c \in {0, 1, 12}}
           \cup {<<1, 2>>, <<>>},
   ts : {0, 37, 743},
   npre : 0 .. MaxPre,
   commit : {abc1234, <<"1", "2", "3", "4", "5", "6", "7">>, <<>>},
   ext : {dmg, zip, deb}]

RenderName(in) ==
  in.prefix
    \o (IF in.ver = <<>> THEN <<>>
        ELSE <<"-">> \o Join([i \in 1 .. Len(in.ver) |-> DecimalText(in.ver[i])], "."))
    \o (IF in.npre = 0 THEN <<>>
        ELSE <<"-">> \o Join([i \in 1 .. in.npre |->
                                IF i = 1 THEN timestampText(in.ts) ELSE <<"1">>], "."))
    \o (IF in.commit = <<>> THEN <<>> ELSE <<"+">> \o in.commit)
    \o in.ext

InitParse ==
  /\ bucket = [k \in Keys |-> Absent]
  /\ listing = <<>>
  /\ run = [p \in Procs |-> IdleRun]
  /\ input \in ParseInputs
  /\ output = Nil

\* The version-parse command: version.Parse(*parseVersionString).
VersionParse ==
  /\ output = Nil
  /\ output' = Ptr(Parse(RenderName(input)))
  /\ UNCHANGED <<bucket, listing, run, input>>

NextParse == VersionParse

SpecParse == InitParse /\ [][NextParse]_vars

\* ---------------------------------- CurrentUpdate and the comparison alone
\* The documents the manifest key may hold.
Documents ==
  {Malformed, NoVersionBlob}
    \cup {UpdateBlob(v) : v \in ManifestVersions}
    \cup {UnknownFieldBlob(v) : v \in ManifestVersions}
    \cup {TrailingBlob(v) : v \in ManifestVersions}

\* The manifest key of the public channel.
publicKey == urlString("", updateJSONName("", platformDarwin.Name, "prod"))

InitDecode ==
  /\ \E doc \in Documents : bucket = [k \in Keys |-> IF k = publicKey THEN doc ELSE Absent]
  /\ listing = <<>>
  /\ run = [p \in Procs |-> IdleRun]
  /\ input \in [Version : BrokenVersions \cup {<<>>}]
  /\ output = Nil

\* PromoteRelease from CurrentUpdate to the comparison, for the release
\* input: GetObject fails, or the body is decoded and compared.
DecodeCompare ==
  /\ output = Nil
  /\ \E getFails \in BOOLEAN :
       LET cu == CurrentUpdate("", platformDarwin.Name, "prod", getFails)
       IN output' = Ptr([currentUpdate |-> cu.currentUpdate, err |-> cu.err,
                         decision |-> promoteDecision(cu.currentUpdate, input)])
  /\ UNCHANGED <<bucket, listing, run, input>>

NextDecode == DecodeCompare

SpecDecode == InitDecode /\ [][NextDecode]_vars

\* ================================================================ claims
\* Vocabulary of the claims, stated without the operators of the model
\* where the claim spells the value out.
ValidUpdate(blob) == blob.kind = "update" /\ Len(blob.version) \in {3, 4}

\* The run compared a found candidate with a decoded current manifest, and
\* both versions are semantic versions.
Compared(rn) ==
  /\ rn.op = "auto"
  /\ rn.release # Nil
  /\ rn.currentUpdate # Nil
  /\ Len(Deref(rn.release).Version) \in {3, 4}
  /\ Len(Deref(rn.currentUpdate).Version) \in {3, 4}

CandidateVsCurrent(rn) ==
  semverCompare(Deref(rn.release).Version, Deref(rn.currentUpdate).Version)

\* update-<platform>-<env>.json, or update-<platform>-<env>-<channel>.json
ManifestKeyOf(rn) ==
  [prefix |-> "",
   name |-> [fmt |-> IF rn.channel = "" THEN "update-%s-%s.json" ELSE "update-%s-%s-%s.json",
             platform |-> "darwin", env |-> rn.env,
             last |-> [str |-> rn.channel, ver |-> <<>>]]]

\* darwin-support/update-<platform>-<env>-<version>.json
SupportKeyOf(rn, version) ==
  [prefix |-> "darwin-support/",
   name |-> [fmt |-> "update-%s-%s-%s.json", platform |-> "darwin", env |-> rn.env,
             last |-> [str |-> "", ver |-> version]]]

NoStorageCall(rn) == rn.calls = <<>>

OneCopyTo(rn, src, dst) ==
  /\ Len(rn.calls) = 1
  /\ rn.calls[1].op = "copy"
  /\ rn.calls[1].src = src
  /\ rn.calls[1].dst = dst

\* The delay and cutoff rule as the specification words it.
Eligible(r, rn) ==
  /\ rn.delay = 0 \/ rn.now - r.Date.instant >= rn.delay
  /\ rn.cutoff = 0 \/ (r.Date.instant + EasternUTCOffset) % HoursPerDay < rn.cutoff

\* C1: a run of PromoteRelease that found a candidate and decoded the
\* current manifest, with the candidate's version equal to or lower than the
\* manifest's, has ended with (nil, nil), has issued no storage call and has
\* left the target manifest as it was.
C1_NoOpWhenNotNewer ==
  \A p \in Procs :
    (Compared(run[p]) /\ CandidateVsCurrent(run[p]) <= 0)
      => /\ run[p].pc = "done"
         /\ NoStorageCall(run[p])
         /\ run[p].ret = Nil
         /\ run[p].err = "nil"
         /\ bucket[ManifestKeyOf(run[p])] = run[p].pre

C1_Witness ==
  \E p \in Procs :
    /\ Compared(run[p])
    /\ CandidateVsCurrent(run[p]) < 0
    /\ run[p].pc = "done"

\* C2: a run of PromoteRelease whose candidate is strictly newer than the
\* decoded current manifest issues exactly one copy, from the support-file
\* manifest of the candidate's version to the target manifest key, and
\* returns the candidate when storage carries the copy out; with the
\* catalog 1.2.0 (2023-01-01 12:00:00) and 1.3.0 (2023-01-02 13:00:00),
\* current manifest 1.2.0, delay 0 and cutoff 0 the candidate is 1.3.0.
C2_OneCopyWhenNewer ==
  \A p \in Procs :
    /\ (Compared(run[p]) /\ CandidateVsCurrent(run[p]) > 0)
         => /\ run[p].pc \in {"copy", "done"}
            /\ run[p].pc = "copy" => NoStorageCall(run[p])
            /\ run[p].pc = "done" =>
                 /\ OneCopyTo(run[p], SupportKeyOf(run[p], Deref(run[p].release).Version),
                              ManifestKeyOf(run[p]))
                 /\ run[p].calls[1].ok =>
                      /\ run[p].ret = run[p].release
                      /\ run[p].err = "nil"
                      /\ bucket[ManifestKeyOf(run[p])] =
                           UpdateBlob(Deref(run[p].release).Version)
    /\ ( /\ run[p].op = "auto"
         /\ run[p].listed
         /\ listing = <<GenericName(<<1, 2, 0>>, 12), GenericName(<<1, 3, 0>>, 37)>>
         /\ run[p].pre = UpdateBlob(<<1, 2, 0>>)
         /\ run[p].delay = 0
         /\ run[p].cutoff = 0 )
         => /\ run[p].release # Nil
            /\ Deref(run[p].release).Name = GenericName(<<1, 3, 0>>, 37)
            /\ Deref(run[p].release).Version = <<1, 3, 0>>

C2_Witness ==
  \E p \in Procs :
    /\ run[p].op = "auto"
    /\ run[p].pc = "done"
    /\ listing = <<GenericName(<<1, 2, 0>>, 12), GenericName(<<1, 3, 0>>, 37)>>
    /\ run[p].pre = UpdateBlob(<<1, 2, 0>>)
    /\ run[p].delay = 0
    /\ run[p].cutoff = 0
    /\ run[p].channel = "test"
    /\ Compared(run[p])
    /\ run[p].ret = run[p].release
    /\ bucket[ManifestKeyOf(run[p])] = UpdateBlob(<<1, 3, 0>>)

\* C3: a run of PromoteRelease that found a candidate and found no object at
\* the target manifest key goes on to the copy whatever the candidate's
\* version, and issues exactly one copy, to the target manifest key.
C3_AbsentManifestOneCopy ==
  \A p \in Procs :
    (run[p].op = "auto" /\ run[p].release # Nil /\ run[p].getErr = "NoSuchKey")
      => /\ run[p].pc \in {"copy", "done"}
         /\ run[p].pc = "copy" => NoStorageCall(run[p])
         /\ run[p].pc = "done" =>
              OneCopyTo(run[p], SupportKeyOf(run[p], Deref(run[p].release).Version),
                        ManifestKeyOf(run[p]))

C3_Witness ==
  \E p \in Procs :
    /\ run[p].op = "auto"
    /\ run[p].release # Nil
    /\ run[p].getErr = "NoSuchKey"
    /\ run[p].pre = Absent
    /\ run[p].pc = "done"
    /\ Len(run[p].calls) = 1
    /\ run[p].calls[1].ok
    /\ bucket[ManifestKeyOf(run[p])] = UpdateBlob(<<1, 2, 0>>)

\* A blob's version is not lower than another's, where both carry a
\* semantic version.
NotLower(new, old) ==
  (ValidUpdate(new) /\ ValidUpdate(old)) => semverCompare(new.version, old.version) >= 0

\* C4: over sequential runs of PromoteRelease, with catalog, clock, delay
\* and cutoff free to change between runs, the copy of a run never lowers
\* the version of a published manifest.
C4_NeverDemotes ==
  [][\A p \in Procs :
       (run[p].op = "auto" /\ run[p].pc = "copy" /\ run'[p].pc = "done")
         => \A k \in ManifestKeys : NotLower(bucket'[k], bucket[k])]_vars

C6_MalformedIsError ==
  \A p \in Procs :
    (run[p].op = "auto" /\ run[p].getErr = "decode" /\ run[p].pc = "done")
      => /\ run[p].err # "nil"
         /\ NoStorageCall(run[p])
         /\ bucket[ManifestKeyOf(run[p])] = Malformed

\* A storage call of the run failed: the listing, the read of the current
\* manifest (other than for want of the object), or the copy.
StorageFailed(rn) ==
  \/ rn.pc = "done" /\ ~rn.listed
  \/ rn.getErr = "GetObject"
  \/ \E i \in 1 .. Len(rn.calls) : ~rn.calls[i].ok

\* C7: a run of PromoteRelease in which the listing, the read of the
\* current manifest or the copy failed returns an error and has not
\* modified the target manifest.
C7_StorageFailureAborts ==
  \A p \in Procs :
    (run[p].op = "auto" /\ run[p].pc = "done" /\ StorageFailed(run[p]))
      => /\ run[p].err # "nil"
         /\ run[p].ret = Nil
         /\ bucket[ManifestKeyOf(run[p])] = run[p].pre

\* C8: a run of PromoteRelease whose listing succeeded and whose catalog
\* holds no release that satisfies the delay and cutoff rule (an empty
\* catalog included) has ended with (nil, nil) and no storage call.
C8_NotFoundIsNoOp ==
  \A p \in Procs :
    ( /\ run[p].op = "auto"
      /\ run[p].listed
      /\ \A i \in 1 .. Len(run[p].catalog) : ~Eligible(run[p].catalog[i], run[p]) )
      => /\ run[p].pc = "done"
         /\ run[p].release = Nil
         /\ run[p].ret = Nil
         /\ run[p].err = "nil"
         /\ NoStorageCall(run[p])
         /\ bucket[ManifestKeyOf(run[p])] = run[p].pre

C8_Witness ==
  \E p \in Procs :
    /\ run[p].op = "auto"
    /\ run[p].listed
    /\ run[p].catalog # <<>>
    /\ \A i \in 1 .. Len(run[p].catalog) : ~Eligible(run[p].catalog[i], run[p])
    /\ run[p].pc = "done"

\* The manual promotion named a release that is not newer than the manifest
\* published when it started.
ManualNotNewer(rn) ==
  /\ rn.op = "manual"
  /\ rn.release # Nil
  /\ ValidUpdate(rn.pre)
  /\ semverCompare(Deref(rn.release).Version, rn.pre.version) <= 0

C10_PredicateIsDelayAndCutoff ==
  \A p \in Procs :
    (run[p].op = "auto" /\ run[p].listed)
      => LET rn == run[p]
             ok == {i \in 1 .. Len(rn.catalog) : Eligible(rn.catalog[i], rn)}
         IN /\ (ok = {}) = (rn.release = Nil)
            /\ rn.release # Nil =>
                 \E i \in ok : /\ rn.catalog[i] = Deref(rn.release)
                               /\ \A j \in ok : i <= j
            /\ (rn.release # Nil /\ rn.cutoff \in {10, 11})
                 => Deref(rn.release).Name # GenericName(<<1, 3, 0>>, 16)

C10_Witness ==
  \E p \in Procs :
    /\ run[p].op = "auto"
    /\ run[p].listed
    /\ run[p].release # Nil
    /\ Deref(run[p].release).Name = GenericName(<<1, 3, 0>>, 16)
    /\ run[p].cutoff = 12
    /\ run[p].delay = 27
    /\ run[p].now - 16 = run[p].delay
    /\ Len(run[p].catalog) = 2
    /\ Deref(run[p].release) = run[p].catalog[2]

\* ---------------------------------------------------------------- C11
\* The catalog loadReleases returned.
Loaded == Deref(output)

\* C11: the catalog loadReleases returns is in descending order of
\* timestamp: no entry is dated before an entry that follows it, whatever
\* the listing, the suffix and the truncation limit.
C11_CatalogNewestFirst ==
  output # Nil =>
    \A i \in 1 .. Len(Loaded) : \A j \in 1 .. Len(Loaded) :
      i < j => Loaded[i].Date.instant >= Loaded[j].Date.instant

\* A truncated catalog of two entries whose newer entry was listed last.
C11_Witness ==
  /\ output # Nil
  /\ input.truncate = 2
  /\ Len(input.objects) = 3
  /\ Len(Loaded) = 2
  /\ Loaded[1].Name = input.objects[3]
  /\ Loaded[1].Date.instant > Loaded[2].Date.instant

\* ---------------------------------------------------------------- C12
\* The listed objects that pass the suffix filter and the index.html
\* filter: every suffix handed in is "" or a file extension.
Matching ==
  {i \in 1 .. Len(input.objects) :
     /\ input.suffix = <<>> \/ input.objects[i].ext = input.suffix
     /\ input.objects[i].kind # "index"}
totalMatches == Cardinality(Matching)

\* The matching objects that are not in the returned catalog.
Dropped ==
  {i \in Matching : \A k \in 1 .. Len(Loaded) : Loaded[k].Name # input.objects[i]}

\* The build time written into a name, in hours; the Unix epoch for a name
\* that carries no time, the zero time for one that carries no date.
WrittenInstant(name) ==
  IF name.kind # "generic" THEN -464592
  ELSE IF name.ts >= 744 THEN -17724480
  ELSE name.ts

\* C12: with a positive limit n the catalog has min(n, totalMatches)
\* entries and no dropped entry is newer than a kept one; with a limit of
\* zero or less it has all totalMatches entries.
C12_TruncationKeepsNewest ==
  output # Nil =>
    IF input.truncate > 0
    THEN /\ Len(Loaded) = (IF input.truncate < totalMatches THEN input.truncate
                           ELSE totalMatches)
         /\ \A i \in Dropped : \A k \in 1 .. Len(Loaded) :
              WrittenInstant(input.objects[i]) <= Loaded[k].Date.instant
    ELSE Len(Loaded) = totalMatches

\* Three objects match, the limit is one and an older entry was dropped.
C12_Witness ==
  /\ output # Nil
  /\ input.truncate = 1
  /\ totalMatches = 3
  /\ Len(Loaded) = 1
  /\ \E i \in Dropped : WrittenInstant(input.objects[i]) < Loaded[1].Date.instant

\* ---------------------------------------------------------------- C13
\* C13: an object that passes the filters and whose name version.Parse
\* fails on is in the catalog, with an empty Version and an empty Commit.
C13_ParseFailureBlank ==
  (output # Nil /\ input.truncate <= 0) =>
    \A i \in Matching :
      Parse(NameText(input.objects[i])).err # "nil" =>
        \E k \in 1 .. Len(Loaded) :
          /\ Loaded[k].Name = input.objects[i]
          /\ Loaded[k].Version = <<>>
          /\ Loaded[k].Commit = <<>>

\* ---------------------------------------------------------------- C14
\* A release whose file name did not parse: dated at the Unix epoch, with
\* a blank version.
ParseFailed(r) == r.Version = <<>> /\ r.Date.instant = -464592

\* C14: an automatic promotion never issues a storage call for, and never
\* returns, a release whose file name did not parse.
C14_ParseFailureNeverPromoted ==
  \A p \in Procs :
    (run[p].op = "auto" /\ run[p].release # Nil) =>
      /\ run[p].calls # <<>> => ~ParseFailed(Deref(run[p].release))
      /\ run[p].ret # Nil => ~ParseFailed(Deref(run[p].ret))

\* ---------------------------------------------------------------- C15
\* A finished ReleaseBroken that found its release.
BrokenDone(rn) == rn.op = "broken" /\ rn.pc = "done" /\ rn.release # Nil

SomeCallFailed(rn) == \E i \in 1 .. Len(rn.calls) : ~rn.calls[i].ok

\* C15: a ReleaseBroken in which the copy or the delete of some file
\* failed returns a non-nil error.
C15_BrokenReportsFailures ==
  \A p \in Procs :
    (BrokenDone(run[p]) /\ SomeCallFailed(run[p])) => run[p].err # "nil"

\* ---------------------------------------------------------------- C16
IsCopy(call) == call.op = "copy"
SomeCopyFailed(rn) == \E i \in 1 .. Len(rn.calls) : IsCopy(rn.calls[i]) /\ ~rn.calls[i].ok

\* darwin/Keybase-<v>.dmg, darwin-updates/Keybase-<v>.zip and
\* darwin-support/update-darwin-prod-<v>.json
FilesOf(v) ==
  << [prefix |-> "darwin/",
      name |-> [kind |-> "bare", ver |-> v, ts |-> 0, commit |-> <<>>,
                ext |-> <<".", "d", "m", "g">>]],
     [prefix |-> "darwin-updates/",
      name |-> [kind |-> "bare", ver |-> v, ts |-> 0, commit |-> <<>>,
                ext |-> <<".", "z", "i", "p">>]],
     [prefix |-> "darwin-support/",
      name |-> [fmt |-> "update-%s-%s-%s.json", platform |-> "darwin", env |-> "prod",
                last |-> [str |-> "", ver |-> v]]] >>

\* C16: when a copy failed, ReleaseBroken has still attempted the copy of
\* every file of the release, in order, and every copy that succeeded is
\* followed by the delete of the file copied.
C16_FailedCopyContinues ==
  \A p \in Procs :
    (BrokenDone(run[p]) /\ SomeCopyFailed(run[p])) =>
      LET calls == run[p].calls
          copies == SelectSeq(calls, IsCopy)
          files == FilesOf(Deref(run[p].release).Version)
      IN /\ Len(copies) = Len(files)
         /\ \A i \in 1 .. Len(copies) : copies[i].src = files[i]
         /\ \A i \in 1 .. Len(calls) :
              (IsCopy(calls[i]) /\ calls[i].ok) =>
                /\ i < Len(calls)
                /\ calls[i + 1].op = "delete"
                /\ calls[i + 1].src = calls[i].src

\* ---------------------------------------------------------------- C17
\* The characters of a manifest or support-file key.
WrittenKey(key) == StringText(key.prefix) \o jsonNameText(key.name)

\* No two keys of the manifests and support files are the same characters.
KeysWrittenApart ==
  \A k1 \in Keys : \A k2 \in Keys : k1 # k2 => WrittenKey(k1) # WrittenKey(k2)

\* A promotion of p is at its copy and k is the manifest key of its target.
TargetOfCopy(p, k) ==
  /\ run[p].pc = "copy"
  /\ run[p].op \in {"auto", "manual"}
  /\ k = ManifestKeyOf(run[p])

C18_FoundReleaseHasURL ==
  \A p \in Procs : run[p].release # Nil => Deref(run[p].release).URL # ""

\* ---------------------------------------------------------------- C19
\* The name handed to Parse is of the generic convention
\* <name>-<major>.<minor>.<patch>-<timestamp>+<commit>.<ext>.
GenericConvention ==
  /\ Len(input.ver) = 3
  /\ input.npre = 1
  /\ Len(input.commit) = 7

\* C19: parsing a name of the generic convention gives back the version,
\* the timestamp and the commit it was written from, without error.
C19_ParseRoundTrip ==
  (output # Nil /\ GenericConvention) =>
    /\ Deref(output).err = "nil"
    /\ ~Deref(output).panic
    /\ Deref(output).version = input.ver
    /\ Deref(output).t = [instant |-> input.ts, offset |-> 0]
    /\ Deref(output).commit = input.commit

\* The same for names without a digit in the prefix and with a major
\* version of at least 1.
C19_RoundTripFromNonZeroMajor ==
  (output # Nil /\ GenericConvention /\ input.ver[1] >= 1
     /\ \A i \in 1 .. Len(input.prefix) :
          input.prefix[i] \notin {"1", "2", "3", "4", "5", "6", "7", "8", "9"}) =>
    /\ Deref(output).err = "nil"
    /\ Deref(output).version = input.ver
    /\ Deref(output).t = [instant |-> input.ts, offset |-> 0]
    /\ Deref(output).commit = input.commit

\* ---------------------------------------------------------------- C20
\* The name is no Linux package.
GeneralPath == input.ext # <<".", "d", "e", "b">>
\* The name has no digit at all.
NoNumericStart ==
  input.ver = <<>> /\ input.npre = 0 /\ input.commit = <<>>
    /\ input.prefix = <<"K", "e", "y", "b", "a", "s", "e">>
\* The name starts its version at a digit and has two or no elements.
NotSemver ==
  input.prefix = <<"K", "e", "y", "b", "a", "s", "e">> /\ Len(input.ver) = 2
\* A three-element version from 1.x.x on, not followed by one pre-release.
NotOnePreRelease ==
  /\ input.prefix = <<"K", "e", "y", "b", "a", "s", "e">>
  /\ Len(input.ver) = 3
  /\ input.ver[1] >= 1
  /\ input.npre # 1

\* C20: Parse returns an error when the name has no numeric start, when
\* what follows the start is no semantic version, and when there is not
\* exactly one pre-release component.
C20_ParseErrors ==
  (output # Nil /\ GeneralPath /\ (NoNumericStart \/ NotSemver \/ NotOnePreRelease)) =>
    Deref(output).err # "nil"

\* The two cases in which the error is returned.
C20_SemverAndPreReleaseErrors ==
  (output # Nil /\ GeneralPath /\ (NotSemver \/ NotOnePreRelease)) =>
    Deref(output).err # "nil"

\* ---------------------------------------------------------------- C21
\* The name is of a Linux package and holds no <n>.<n>.<n> for the
\* pattern to match.
LinuxNoMatch ==
  /\ input.ext = <<".", "d", "e", "b">>
  /\ Len(input.ver) < 3

\* C21: for a Linux package name that does not match the pattern, the
\* parser returns an error to its caller and does not abort it.
C21_LinuxNoMatchReturnsError ==
  (output # Nil /\ LinuxNoMatch) =>
    /\ ~Deref(output).panic
    /\ Deref(output).err # "nil"

\* ---------------------------------------------------------------- C22
\* The stored document is not a manifest as EncodeJSON writes it.
NotAManifest == bucket[publicKey].kind \in {"malformed", "unknownField", "noVersion", "trailing"}

\* C22: DecodeJSON returns an error and no manifest for a document that is
\* malformed, has an unknown field or lacks the version, so that
\* PromoteRelease compares against no such document.
C22_DecodeStrict ==
  (output # Nil /\ NotAManifest) =>
    /\ Deref(output).err # "nil"
    /\ Deref(output).currentUpdate = Nil

\* What does hold: a document that is no JSON value gives an error and no
\* manifest.
C22_MalformedIsRejected ==
  (output # Nil /\ bucket[publicKey].kind = "malformed") =>
    /\ Deref(output).err # "nil"
    /\ Deref(output).currentUpdate = Nil

\* ---------------------------------------------------------------- C23
\* C23: the key a promotion reads the current manifest from and the key it
\* copies to are the same key, update-<platform>-<env>.json for the empty
\* channel and update-<platform>-<env>-<channel>.json for a named one.
C23_ReadKeyIsWrittenKey ==
  \A p \in Procs :
    run[p].op = "auto" =>
      /\ run[p].readKey # Nil => Deref(run[p].readKey) = ManifestKeyOf(run[p])
      /\ \A i \in 1 .. Len(run[p].calls) :
           /\ run[p].calls[i].dst = ManifestKeyOf(run[p])
           /\ run[p].readKey = Ptr(run[p].calls[i].dst)

\* A promotion to a named channel has read the manifest and copied.
C23_Witness ==
  \E p \in Procs :
    /\ run[p].op = "auto"
    /\ run[p].channel = "test"
    /\ run[p].readKey # Nil
    /\ run[p].calls # <<>>
    /\ run[p].calls[1].ok

\* ---------------------------------------------------------------- C24
\* Where the listing handed to loadReleases has the object of a name.
ListedAt(name) == CHOOSE k \in 1 .. Len(input.objects) : input.objects[k] = name

\* C24: two releases of the catalog with the same timestamp are in the
\* order in which the listing holds them.
C24_TiesKeepListingOrder ==
  output # Nil =>
    \A i \in 1 .. Len(Loaded) : \A j \in 1 .. Len(Loaded) :
      (i < j /\ Loaded[i].Date = Loaded[j].Date) =>
        ListedAt(Loaded[i].Name) < ListedAt(Loaded[j].Name)

\* What does hold: the same for a catalog of at most twelve releases.
C24_TiesKeepOrderUpToTwelve ==
  (output # Nil /\ Cardinality(Matching) <= 12) =>
    \A i \in 1 .. Len(Loaded) : \A j \in 1 .. Len(Loaded) :
      (i < j /\ Loaded[i].Date = Loaded[j].Date) =>
        ListedAt(Loaded[i].Name) < ListedAt(Loaded[j].Name)

\* ---------------------------------------------------------------- C25
\* C25: the release an automatic promotion found is eligible and no
\* eligible release of the catalog has a later timestamp; it goes on to the
\* reading of the current manifest. When no release of the catalog is
\* eligible the promotion has ended with (nil, nil).
C25_FirstEligibleIsCandidate ==
  \A p \in Procs :
    (run[p].op = "auto" /\ run[p].listed) =>
      /\ run[p].release # Nil =>
           /\ Eligible(Deref(run[p].release), run[p])
           /\ \A k \in 1 .. Len(run[p].catalog) :
                Eligible(run[p].catalog[k], run[p]) =>
                  run[p].catalog[k].Date.instant <= Deref(run[p].release).Date.instant
           /\ run[p].pc = "current" \/ run[p].readKey # Nil
      /\ run[p].release = Nil =>
           /\ \A k \in 1 .. Len(run[p].catalog) : ~Eligible(run[p].catalog[k], run[p])
           /\ run[p].pc = "done" /\ run[p].ret = Nil /\ run[p].err = "nil"

\* The newest release is not eligible, an older one is the candidate and
\* the current manifest has been read for it.
C25_Witness ==
  \E p \in Procs :
    /\ run[p].op = "auto"
    /\ run[p].release # Nil
    /\ run[p].readKey # Nil
    /\ \E k \in 1 .. Len(run[p].catalog) :
         /\ run[p].catalog[k].Date.instant > Deref(run[p].release).Date.instant
         /\ ~Eligible(run[p].catalog[k], run[p])

\* ---------------------------------------------------------------- C26
\* The step is a copy of invocation p that succeeds.
CopyLands(p) ==
  /\ run[p].pc = "copy"
  /\ run'[p].pc = "done"
  /\ run'[p].err = "nil"

\* C26: nothing holds back the copy of an invocation that decided to
\* promote: whatever the other invocation has read or written meanwhile,
\* when the copy succeeds the manifest is the one of its release.
C26_LastCopyWins ==
  [][\A p \in Procs :
       CopyLands(p) =>
         bucket'[ManifestKeyOf(run[p])] = UpdateBlob(Deref(run[p].release).Version)]_vars

\* Both invocations have read the same stored manifest and both have copied
\* to the manifest key.
C26_Witness ==
  /\ \A p \in Procs :
       /\ run[p].pc = "done"
       /\ run[p].getErr = "nil"
       /\ run[p].currentUpdate # Nil
       /\ run[p].pre = UpdateBlob(Deref(run[p].currentUpdate).Version)
       /\ Len(run[p].calls) = 1
       /\ run[p].calls[1].ok
       /\ run[p].calls[1].dst = ManifestKeyOf(run[p])
  /\ run[1].currentUpdate = run[2].currentUpdate
  /\ ManifestKeyOf(run[1]) = ManifestKeyOf(run[2])

\* ---------------------------------------------------------------- C27
\* C27 as stated: a copy of an invocation that read the current manifest
\* never replaces a stored manifest by one of a lower version.
C27_NeverOverwritesNewer ==
  [][\A p \in Procs :
       (CopyLands(p) /\ run[p].getErr # "GetObject"
          /\ ValidUpdate(bucket[ManifestKeyOf(run[p])])) =>
         semverCompare(bucket'[ManifestKeyOf(run[p])].version,
                       bucket[ManifestKeyOf(run[p])].version) >= 0]_vars

\* C27 amended: a copy publishes a version higher than the one of the
\* manifest its invocation read and decoded.
C27_WriteNewerThanRead ==
  [][\A p \in Procs :
       (CopyLands(p) /\ run[p].currentUpdate # Nil) =>
         semverCompare(bucket'[ManifestKeyOf(run[p])].version,
                       Deref(run[p].currentUpdate).Version) > 0]_vars

\* Two invocations saw different catalogs and both copied; the one that
\* found the older release read the manifest before the other wrote, and
\* its copy landed last: the manifest holds the older version.
C27_Witness ==
  \E p \in Procs : \E q \in Procs \ {p} :
    /\ run[p].pc = "done" /\ run[q].pc = "done"
    /\ run[p].catalog # run[q].catalog
    /\ run[p].getErr # "GetObject"
    /\ Len(run[p].calls) = 1 /\ run[p].calls[1].ok
    /\ Len(run[q].calls) = 1 /\ run[q].calls[1].ok
    /\ semverCompare(Deref(run[p].release).Version, Deref(run[q].release).Version) < 0
    /\ bucket[ManifestKeyOf(run[q])] = UpdateBlob(Deref(run[p].release).Version)

\* ---------------------------------------------------------------- C28
\* The invocation issued one copy and storage carried it out.
OneCopySucceeded(rn) ==
  /\ Len(rn.calls) = 1
  /\ rn.calls[1].op = "copy"
  /\ rn.calls[1].ok

\* C28: PromoteRelease has returned its release exactly when it issued one
\* copy and the copy succeeded; otherwise it has returned no release, has
\* issued at most one copy and no other call that changes storage, and
\* without a successful copy the manifest is the one it started with.
C28_ReleaseIffOneCopySucceeded ==
  \A p \in Procs :
    (run[p].op = "auto" /\ run[p].pc = "done") =>
      /\ run[p].ret # Nil <=> OneCopySucceeded(run[p])
      /\ run[p].ret # Nil => run[p].ret = run[p].release /\ run[p].err = "nil"
      /\ Len(run[p].calls) <= 1
      /\ \A i \in 1 .. Len(run[p].calls) : run[p].calls[i].op = "copy"
      /\ ~OneCopySucceeded(run[p]) => bucket[ManifestKeyOf(run[p])] = run[p].pre

\* A promotion returned its release after a copy that succeeded.
C28_Witness ==
  \E p \in Procs :
    /\ run[p].op = "auto"
    /\ run[p].pc = "done"
    /\ run[p].ret # Nil
    /\ OneCopySucceeded(run[p])
    /\ bucket[ManifestKeyOf(run[p])] # run[p].pre

\* A promotion whose copy failed returned no release.
C28_WitnessCopyFailed ==
  \E p \in Procs :
    /\ run[p].op = "auto"
    /\ run[p].pc = "done"
    /\ Len(run[p].calls) = 1
    /\ ~run[p].calls[1].ok
    /\ run[p].ret = Nil

\* ---------------------------------------------------------------- C29
\* Invocation p is about to delete file k, which it has just copied.
DeletesAfterCopy(p, k) ==
  /\ run[p].pc = "brokenDelete"
  /\ run[p].calls # <<>>
  /\ run[p].calls[Len(run[p].calls)] =
       [op |-> "copy", src |-> k, dst |-> brokenPath(k), ok |-> TRUE]
  /\ \A i \in 1 .. Len(run[p].calls) :
       (run[p].calls[i].op = "copy" /\ run[p].calls[i].src = k) => run[p].calls[i].ok

\* C29: a step of ReleaseBroken leaves a stored file where it is, or
\* deletes it in the run that has just copied it, with its content then
\* under broken/; a copy under broken/ stays; a step in which a copy fails
\* changes nothing in storage.
C29_NeverLosesAFile ==
  [][/\ \A k \in FileKeys :
          /\ bucket[k] # Absent =>
               \/ bucket'[k] = bucket[k]
               \/ /\ bucket'[k] = Absent
                  /\ bucket'[brokenPath(k)] = bucket[k]
                  /\ \E p \in Procs : DeletesAfterCopy(p, k)
          /\ bucket[brokenPath(k)] # Absent => bucket'[brokenPath(k)] = bucket[brokenPath(k)]
     /\ \A p \in Procs :
          (run[p].pc = "brokenCopy" /\ ~run'[p].calls[Len(run'[p].calls)].ok) =>
            bucket' = bucket]_vars

\* A call has returned: the copy of one file failed and the file is where
\* it was; another file was copied and deleted and is under broken/.
C29_Witness ==
  \E p \in Procs :
    /\ run[p].op = "broken"
    /\ run[p].pc = "done"
    /\ \E i \in 1 .. Len(run[p].calls) :
         /\ run[p].calls[i].op = "copy"
         /\ ~run[p].calls[i].ok
         /\ bucket[run[p].calls[i].src] = FileBlob(run[p].calls[i].src)
    /\ \E i \in 1 .. Len(run[p].calls) :
         /\ run[p].calls[i].op = "delete"
         /\ run[p].calls[i].ok
         /\ bucket[run[p].calls[i].src] = Absent
         /\ bucket[brokenPath(run[p].calls[i].src)] = FileBlob(run[p].calls[i].src)

\* ---------------------------------------------------------------- C30
\* The candidate and the decoded manifest have the same major, minor and
\* patch version.
SameMajorMinorPatch(rn) ==
  SubSeq(Deref(rn.release).Version, 1, 3) = SubSeq(Deref(rn.currentUpdate).Version, 1, 3)

\* C30: a candidate with the major.minor.patch of the published manifest,
\* whatever its timestamp and commit, is classified equal: the promotion
\* has ended with (nil, nil) and no storage call.
C30_SameVersionIsEqual ==
  \A p \in Procs :
    (Compared(run[p]) /\ SameMajorMinorPatch(run[p])) =>
      /\ run[p].decision = "unchanged"
      /\ run[p].pc = "done"
      /\ NoStorageCall(run[p])
      /\ run[p].ret = Nil
      /\ run[p].err = "nil"

\* What does hold: the same against a manifest whose version is a plain
\* major.minor.patch.
C30_EqualAgainstPlainVersion ==
  \A p \in Procs :
    (Compared(run[p]) /\ SameMajorMinorPatch(run[p])
       /\ Len(Deref(run[p].currentUpdate).Version) = 3) =>
      /\ run[p].decision = "unchanged"
      /\ run[p].pc = "done"
      /\ NoStorageCall(run[p])
      /\ run[p].ret = Nil

====
